---- MODULE Spec2Model ----
(***************************************************************************)
(* Model of the Pokemon MCP server: src/src/server.py (main, the tool      *)
(* handlers, the ASGI lifespan) and src/src/poke_client.py (PokeClient).   *)
(*                                                                         *)
(* One process runs main().  While the streamable-http transport serves,   *)
(* up to NInvocations tool invocations run concurrently; each is stepped   *)
(* statement by statement through the handler and PokeClient.              *)
(* get_pokemon_data, so every interleaving of handler steps and provider   *)
(* calls is explored.  The data provider is the environment: it answers    *)
(* each GET with any status/body, or the request fails on the network.     *)
(***************************************************************************)
EXTENDS Naturals, Sequences, FiniteSets, TLC

\* Number of tool invocations that may be in flight in one run.
NInvocations == 2

Invocations == 1..NInvocations

(***************************************************************************)
(* Python values: str and dict (a dict is its set of <<key, value>> items).*)
(***************************************************************************)
PyNone == [type |-> "NoneType"]
PyStr(s) == [type |-> "str", val |-> s]
PyDict(items) == [type |-> "dict", items |-> items]

HasKey(v, k) == v.type = "dict" /\ \E it \in v.items : it[1] = k

(***************************************************************************)
(* server.py: transports and main's dispatch on the selection.             *)
(***************************************************************************)
\* _MCPTransport: the two supported selection values.
MCPTransportValues == {"streamable-http", "stdio"}

\* Values the operator may pass as --transport (the default included).
TransportInputs == {"streamable-http", "stdio", "sse", "STDIO", ""}

\* A plausible slip: the final else falls through to the default transport.
MainBranchDefaulting(t) ==
    IF t = "stdio" THEN "stdio" ELSE "streamable-http"

\* main: if transport == "streamable-http" ... elif transport == "stdio" ... else
MainBranch(t) ==
    IF t = "streamable-http" THEN "streamable-http"
    ELSE IF t = "stdio" THEN "stdio"
    ELSE "unsupported"

\* typer.echo(f"Unsupported: {transport}! Choose from {[...]}", err=True)
UnsupportedMessage(t) ==
    "Unsupported: " \o t \o "! Choose from ['streamable-http', 'stdio']"

\* Attributes of the object main binds to mcp_server, FastMCP._mcp_server,
\* the low-level mcp.server.Server: it has no attribute `server`.
LowLevelServerAttrs ==
    {"name", "version", "instructions", "lifespan", "request_handlers",
     "notification_handlers", "notification_options", "run",
     "create_initialization_options", "get_capabilities"}

\* A slip: only the lookup tool is registered.
RegisterToolsLookupOnly == <<"get_pokemon">>

\* register_tools: the two @self.server.tool() decorations, in order.
RegisterTools == <<"greet_pokemon_user", "get_pokemon">>

(***************************************************************************)
(* poke_client.py: URL, provider answers, requests' status and JSON rules. *)
(***************************************************************************)
BaseUrl == "https://pokeapi.co/api/v2"
Endpoint == "/pokemon"

\* Lookup keys (and greeting names) the clients send.
Names == {"pikachu", "missingmon"}

\* url = f"{self.settings.base_url}{endpoint}/{name}"
Url(name) == BaseUrl \o Endpoint \o "/" \o name

KeyOf(url) == CHOOSE k \in Names : Url(k) = url

\* requests' HTTPError text, "<code> <Client|Server> Error: <reason> for url:
\* <url>", without the code and the reason.
HTTPErrorMsg(status, url) ==
    (IF status < 500 THEN "Client Error" ELSE "Server Error")
    \o " for url: " \o url

\* A response body is a sequence of tokens; a JSON object is "{" k v ... "}".
PokemonText(k) ==
    <<"{", "name", k, "id", (IF k = "pikachu" THEN "25" ELSE "0"),
      "height", "4", "}">>

\* A 2xx body that is a JSON object with an `error` key, worded like a failure.
ErrorShapedText(url) == <<"{", "error", HTTPErrorMsg(404, url), "}">>

\* What the provider may answer to a GET of url: status, body.
ProviderAnswers(url) ==
    { [status |-> 200, text |-> PokemonText(KeyOf(url))],
      [status |-> 200, text |-> ErrorShapedText(url)],
      [status |-> 200, text |-> <<"<html>", "oops">>],
      [status |-> 300, text |-> PokemonText(KeyOf(url))],
      [status |-> 404, text |-> <<"Not", "Found">>] }

\* How session.get(url, timeout=10) may fail without a response.
NetworkFaults(url) ==
    { [type |-> "ConnectionError", msg |-> "Max retries exceeded with url: " \o url],
      [type |-> "ReadTimeout", msg |-> "Read timed out. (read timeout=10)"] }

NoResponse == [status |-> 0, text |-> <<>>]
NoExc == [type |-> "none", msg |-> ""]

\* Exception classes: requests' faults all derive from Exception.
ExcBases(type) ==
    CASE type = "HTTPError" -> {"HTTPError", "RequestException", "Exception"}
      [] type = "ConnectionError" -> {"ConnectionError", "RequestException", "Exception"}
      [] type = "ReadTimeout" -> {"ReadTimeout", "Timeout", "RequestException", "Exception"}
      [] type = "JSONDecodeError" ->
            {"JSONDecodeError", "RequestException", "ValueError", "Exception"}
      [] OTHER -> {}

IsInstance(exc, cls) == cls \in ExcBases(exc.type)

\* response.raise_for_status(): raises HTTPError for 4xx and 5xx only.
RaisesForStatus(status) == 400 <= status /\ status < 600

\* response.json(): the body must be one JSON value.
Decodable(text) ==
    /\ Len(text) >= 2
    /\ text[1] = "{"
    /\ text[Len(text)] = "}"
    /\ (Len(text) - 2) % 2 = 0

Decode(text) ==
    PyDict({ <<text[2 * i], text[2 * i + 1]>> : i \in 1..((Len(text) - 2) \div 2) })

JSONDecodeMsg == "Expecting value: line 1 column 1 (char 0)"

\* The commented-out validation: PokemonResponse keeps only name and id.
ReturnedDataValidated(data) ==
    PyDict({ it \in data.items : it[1] \in {"name", "id"} })

\* get_pokemon_data: data = response.json(); return data
ReturnedData(data) == data

\* A slip: the response is kept on the shared client instead of in a local.
ResponseSlotShared(s) == 1

\* `response` is a local of the call: one slot per invocation.
ResponseSlot(s) == s

\* A slip: the client retries the GET after a fault instead of re-raising.
ClientExceptRetry == "send_get"

\* get_pokemon_data's except clauses log and re-raise into the handler.
ClientExceptNext == "handler_except"

\* A slip: the handler catches only requests.HTTPError.
HandlerCatchesHTTPOnly(exc) == IsInstance(exc, "HTTPError")

\* get_pokemon: except Exception as e
HandlerCatches(exc) == IsInstance(exc, "Exception")

\* get_pokemon: return {"error": str(e)}
ErrorResult(exc) == PyDict({ <<"error", exc.msg>> })

\* greet_pokemon_user: f"Hello {name}, Welcome to Pokemon MCP Server"
Greeting(name) == PyStr("Hello " \o name \o ", Welcome to Pokemon MCP Server")

(***************************************************************************)
(* State.                                                                  *)
(***************************************************************************)
VARIABLES
    transport,      \* main's `transport` parameter
    mainpc,         \* main: "start", "constructed", "serving", "exited"
    tools,          \* FastMCP's tool registrations, in order
    sessionOpen,    \* PokeClient.session exists and has not been closed
    closeCount,     \* calls of PokeClient.close()
    lifespan,       \* the ASGI lifespan: "none", "running", "exited"
    listener,       \* uvicorn has bound host:port
    everBound,      \* a listener was bound at some point of the run
    started,        \* transports started in this process
    stderr,         \* what typer.echo(..., err=True) wrote
    exitFault,      \* the exception main ended with, "none" if it returned
    inv,            \* per invocation: the handler's and the client's frame
    response,       \* the `response` local, by ResponseSlot
    wire,           \* GET requests sent and not yet answered
    providerLog     \* per invocation, what the provider did with its GETs

vars == <<transport, mainpc, tools, sessionOpen, closeCount, lifespan, listener,
          everBound, started, stderr, exitFault, inv, response, wire, providerLog>>

procVars == <<transport, mainpc, tools, sessionOpen, closeCount, lifespan,
              listener, everBound, started, stderr, exitFault>>

IdleFrame ==
    [pc |-> "idle", tool |-> "", name |-> "", url |-> "", exc |-> NoExc,
     data |-> PyNone, result |-> PyNone, nresults |-> 0, gets |-> 0,
     escaped |-> FALSE]

InFlight(s) == inv[s].pc \notin {"idle", "done", "escaped"}

Init ==
    /\ transport \in TransportInputs
    /\ mainpc = "start"
    /\ tools = <<>>
    /\ sessionOpen = FALSE
    /\ closeCount = 0
    /\ lifespan = "none"
    /\ listener = FALSE
    /\ everBound = FALSE
    /\ started = {}
    /\ stderr = <<>>
    /\ exitFault = "none"
    /\ inv = [s \in Invocations |-> IdleFrame]
    /\ response = [s \in Invocations |-> NoResponse]
    /\ wire = {}
    /\ providerLog = [s \in Invocations |-> <<>>]

(***************************************************************************)
(* main and the server's lifecycle.                                        *)
(***************************************************************************)
\* poke_server = PokemonMCPServer("Pokemon MCP Server"): FastMCP, PokeClient
\* (which opens a requests.Session) and register_tools.
Construct ==
    /\ mainpc = "start"
    /\ tools' = RegisterTools
    /\ sessionOpen' = TRUE
    /\ mainpc' = "constructed"
    /\ UNCHANGED <<transport, closeCount, lifespan, listener, everBound, started,
                   stderr, exitFault, inv, response, wire, providerLog>>

\* bootstrap_asgi and uvicorn.run: the listener is bound and the lifespan
\* enters session_manager.run().
MainStreamableHttp ==
    /\ mainpc = "constructed"
    /\ MainBranch(transport) = "streamable-http"
    /\ started' = started \cup {"streamable-http"}
    /\ lifespan' = "running"
    /\ listener' = TRUE
    /\ everBound' = TRUE
    /\ mainpc' = "serving"
    /\ UNCHANGED <<transport, tools, sessionOpen, closeCount, stderr, exitFault,
                   inv, response, wire, providerLog>>

\* mcp_server.server.run(): the attribute lookup on the low-level server
\* comes first; without the attribute main ends with AttributeError.
MainStdio ==
    /\ mainpc = "constructed"
    /\ MainBranch(transport) = "stdio"
    /\ IF "server" \in LowLevelServerAttrs
       THEN /\ started' = started \cup {"stdio"}
            /\ exitFault' = "none"
       ELSE /\ started' = started
            /\ exitFault' = "AttributeError"
    /\ mainpc' = "exited"
    /\ UNCHANGED <<transport, tools, sessionOpen, closeCount, lifespan, listener,
                   everBound, stderr, inv, response, wire, providerLog>>

\* The else branch: report on stderr; main returns.
MainUnsupported ==
    /\ mainpc = "constructed"
    /\ MainBranch(transport) = "unsupported"
    /\ stderr' = Append(stderr, UnsupportedMessage(transport))
    /\ mainpc' = "exited"
    /\ UNCHANGED <<transport, tools, sessionOpen, closeCount, lifespan, listener,
                   everBound, started, exitFault, inv, response, wire, providerLog>>

\* Shutdown of uvicorn.run with its defaults: requests in flight are waited
\* for, then the lifespan's finally block runs and session_manager.run()
\* exits.  Nothing on this path calls PokeClient.close().
Shutdown ==
    /\ mainpc = "serving"
    /\ \A s \in Invocations : ~InFlight(s)
    /\ listener' = FALSE
    /\ lifespan' = "exited"
    /\ mainpc' = "exited"
    /\ UNCHANGED <<transport, tools, sessionOpen, closeCount, everBound, started,
                   stderr, exitFault, inv, response, wire, providerLog>>

(***************************************************************************)
(* One tool invocation over the streamable-http transport.                 *)
(***************************************************************************)
Frame(s, f) == [inv EXCEPT ![s] = f]

\* A request reaches the mounted app while it serves; the session manager
\* (stateless=True) runs the named tool's handler for it.  Invocations are
\* numbered in the order they arrive.
Invoke(s, tool, name) ==
    /\ mainpc = "serving"
    /\ listener
    /\ lifespan = "running"
    /\ inv[s].pc = "idle"
    /\ \A r \in 1..(s - 1) : inv[r].pc # "idle"
    /\ \E i \in 1..Len(tools) : tools[i] = tool
    /\ inv' = Frame(s, [IdleFrame EXCEPT !.pc = "handler", !.tool = tool,
                                         !.name = name])
    /\ UNCHANGED <<procVars, response, wire, providerLog>>

\* greet_pokemon_user: return the greeting.
GreetPokemonUser(s) ==
    /\ mainpc = "serving"
    /\ inv[s].pc = "handler"
    /\ inv[s].tool = "greet_pokemon_user"
    /\ inv' = Frame(s, [inv[s] EXCEPT !.result = Greeting(inv[s].name),
                                      !.nresults = @ + 1,
                                      !.pc = "done"])
    /\ UNCHANGED <<procVars, response, wire, providerLog>>

\* get_pokemon calls self.poke_client.get_pokemon_data(name), which builds url.
GetPokemonData(s) ==
    /\ mainpc = "serving"
    /\ inv[s].pc = "handler"
    /\ inv[s].tool = "get_pokemon"
    /\ inv' = Frame(s, [inv[s] EXCEPT !.url = Url(inv[s].name), !.pc = "send_get"])
    /\ UNCHANGED <<procVars, response, wire, providerLog>>

\* self.session.get(url, timeout=10): the GET goes out.
SessionGetSend(s) ==
    /\ mainpc = "serving"
    /\ inv[s].pc = "send_get"
    /\ wire' = wire \cup {[sock |-> s, url |-> inv[s].url]}
    /\ inv' = Frame(s, [inv[s] EXCEPT !.gets = @ + 1, !.pc = "await_response"])
    /\ UNCHANGED <<procVars, response, providerLog>>

\* The provider answers the GET; session.get returns the response.
SessionGetReturn(s) ==
    /\ mainpc = "serving"
    /\ inv[s].pc = "await_response"
    /\ \E req \in wire :
         /\ req.sock = s
         /\ \E a \in ProviderAnswers(req.url) :
              /\ wire' = wire \ {req}
              /\ response' = [response EXCEPT ![ResponseSlot(s)] = a]
              /\ providerLog' =
                   [providerLog EXCEPT
                      ![s] = Append(@, [kind |-> "answer", url |-> req.url,
                                        status |-> a.status, text |-> a.text])]
    /\ inv' = Frame(s, [inv[s] EXCEPT !.pc = "raise_for_status"])
    /\ UNCHANGED procVars

\* The GET fails on the network or times out; session.get raises.
SessionGetRaise(s) ==
    /\ mainpc = "serving"
    /\ inv[s].pc = "await_response"
    /\ \E req \in wire :
         /\ req.sock = s
         /\ \E f \in NetworkFaults(req.url) :
              /\ wire' = wire \ {req}
              /\ providerLog' =
                   [providerLog EXCEPT
                      ![s] = Append(@, [kind |-> "fault", url |-> req.url,
                                        type |-> f.type, msg |-> f.msg])]
              /\ inv' = Frame(s, [inv[s] EXCEPT !.exc = f, !.pc = "client_except"])
    /\ UNCHANGED <<procVars, response>>

\* response.raise_for_status()
RaiseForStatus(s) ==
    /\ mainpc = "serving"
    /\ inv[s].pc = "raise_for_status"
    /\ LET r == response[ResponseSlot(s)] IN
         IF RaisesForStatus(r.status)
         THEN inv' = Frame(s, [inv[s] EXCEPT
                                 !.exc = [type |-> "HTTPError",
                                          msg |-> HTTPErrorMsg(r.status, inv[s].url)],
                                 !.pc = "client_except"])
         ELSE inv' = Frame(s, [inv[s] EXCEPT !.pc = "json"])
    /\ UNCHANGED <<procVars, response, wire, providerLog>>

\* data = response.json(); return data
ResponseJson(s) ==
    /\ mainpc = "serving"
    /\ inv[s].pc = "json"
    /\ LET r == response[ResponseSlot(s)] IN
         IF Decodable(r.text)
         THEN inv' = Frame(s, [inv[s] EXCEPT !.data = ReturnedData(Decode(r.text)),
                                             !.pc = "return_data"])
         ELSE inv' = Frame(s, [inv[s] EXCEPT
                                 !.exc = [type |-> "JSONDecodeError",
                                          msg |-> JSONDecodeMsg],
                                 !.pc = "client_except"])
    /\ UNCHANGED <<procVars, response, wire, providerLog>>

\* except requests.HTTPError as http_err: log, raise
ClientExceptHTTP(s) ==
    /\ mainpc = "serving"
    /\ inv[s].pc = "client_except"
    /\ IsInstance(inv[s].exc, "HTTPError")
    /\ inv' = Frame(s, [inv[s] EXCEPT !.pc = ClientExceptNext])
    /\ UNCHANGED <<procVars, response, wire, providerLog>>

\* except Exception as err: log, raise
ClientExceptOther(s) ==
    /\ mainpc = "serving"
    /\ inv[s].pc = "client_except"
    /\ ~IsInstance(inv[s].exc, "HTTPError")
    /\ IsInstance(inv[s].exc, "Exception")
    /\ inv' = Frame(s, [inv[s] EXCEPT !.pc = ClientExceptNext])
    /\ UNCHANGED <<procVars, response, wire, providerLog>>

\* get_pokemon: return self.poke_client.get_pokemon_data(name)
HandlerReturn(s) ==
    /\ mainpc = "serving"
    /\ inv[s].pc = "return_data"
    /\ inv' = Frame(s, [inv[s] EXCEPT !.result = inv[s].data,
                                      !.nresults = @ + 1,
                                      !.pc = "done"])
    /\ UNCHANGED <<procVars, response, wire, providerLog>>

\* get_pokemon: except Exception as e: log, return {"error": str(e)};
\* an exception the clause does not catch leaves the handler.
HandlerExcept(s) ==
    /\ mainpc = "serving"
    /\ inv[s].pc = "handler_except"
    /\ IF HandlerCatches(inv[s].exc)
       THEN inv' = Frame(s, [inv[s] EXCEPT !.result = ErrorResult(inv[s].exc),
                                           !.nresults = @ + 1,
                                           !.pc = "done"])
       ELSE inv' = Frame(s, [inv[s] EXCEPT !.escaped = TRUE, !.pc = "escaped"])
    /\ UNCHANGED <<procVars, response, wire, providerLog>>

Next ==
    \/ Construct
    \/ MainStreamableHttp
    \/ MainStdio
    \/ MainUnsupported
    \/ Shutdown
    \/ \E s \in Invocations, tool \in {"greet_pokemon_user", "get_pokemon"},
          name \in Names : Invoke(s, tool, name)
    \/ \E s \in Invocations : GreetPokemonUser(s)
    \/ \E s \in Invocations : GetPokemonData(s)
    \/ \E s \in Invocations : SessionGetSend(s)
    \/ \E s \in Invocations : SessionGetReturn(s)
    \/ \E s \in Invocations : SessionGetRaise(s)
    \/ \E s \in Invocations : RaiseForStatus(s)
    \/ \E s \in Invocations : ResponseJson(s)
    \/ \E s \in Invocations : ClientExceptHTTP(s)
    \/ \E s \in Invocations : ClientExceptOther(s)
    \/ \E s \in Invocations : HandlerReturn(s)
    \/ \E s \in Invocations : HandlerExcept(s)

Spec == Init /\ [][Next]_vars

(***************************************************************************)
(* Properties.                                                             *)
(***************************************************************************)
Done(s) == inv[s].pc = "done"

Lookup(s) == inv[s].tool = "get_pokemon"

\* The last thing the provider did with invocation s's GET.
LastProvided(s) == providerLog[s][Len(providerLog[s])]

\* A provider behaviour that makes the client raise.
MakesClientRaise(b) ==
    \/ b.kind = "fault"
    \/ b.kind = "answer" /\ RaisesForStatus(b.status)
    \/ b.kind = "answer" /\ ~Decodable(b.text)

C2_ErrorKeyIffFailure ==
    \A s \in Invocations :
        Done(s) => (HasKey(inv[s].result, "error") <=> inv[s].exc.type # "none")

\* C3 (as claimed): once the lifespan has exited, the client's connection
\* resource has been closed exactly once.
C3_ClosedOnceAfterShutdown ==
    lifespan = "exited" => (closeCount = 1 /\ ~sessionOpen)

\* C6 (as claimed): with the stdio transport selected the transport runs and
\* the process ends cleanly.
C6_StdioEndsCleanly ==
    (transport = "stdio" /\ mainpc = "exited") =>
        ("stdio" \in started /\ exitFault = "none")

\* C7: for a selection other than the two supported values no listener is
\* ever bound and no transport started, main's only step is the report on
\* stderr after which the process has ended; and for every selection at most
\* one transport is started.
C7_UnsupportedReportedNothingStarted ==
    /\ Cardinality(started) <= 1
    /\ transport \notin MCPTransportValues =>
          /\ ~everBound /\ ~listener
          /\ started = {}
          /\ mainpc \in {"start", "constructed", "exited"}
          /\ mainpc = "constructed" => ENABLED MainUnsupported
          /\ mainpc = "exited" =>
                /\ stderr = <<UnsupportedMessage(transport)>>
                /\ exitFault = "none"

C7_Witness ==
    /\ transport = "sse"
    /\ mainpc = "exited"
    /\ stderr = <<"Unsupported: sse! Choose from ['streamable-http', 'stdio']">>
    /\ ~everBound

ToolsRegistered ==
    /\ Len(tools) = 2
    /\ { tools[i] : i \in 1..Len(tools) } = {"greet_pokemon_user", "get_pokemon"}

\* C8: once construction has finished the registered tools are exactly the
\* greeting tool and the lookup tool, each once, whatever transport was
\* selected, and no later step changes the registry.
C8_ToolSetFixed ==
    /\ [](mainpc # "start" => ToolsRegistered)
    /\ [][mainpc # "start" => tools' = tools]_vars

C8_Witness ==
    /\ transport = "streamable-http"
    /\ mainpc = "exited"
    /\ ToolsRegistered
    /\ \E s, t \in Invocations :
          /\ Done(s) /\ inv[s].tool = "greet_pokemon_user"
          /\ Done(t) /\ inv[t].tool = "get_pokemon"

\* C9: when the provider answered the lookup with a 2xx status and a
\* decodable body, the finished get_pokemon invocation's result is exactly
\* the decoded body: for the record of key k, the items name, id and height
\* and nothing else.
C9_SuccessPayloadIsBody ==
    \A s \in Invocations :
        (/\ Done(s) /\ Lookup(s)
         /\ LastProvided(s).kind = "answer"
         /\ LastProvided(s).status >= 200 /\ LastProvided(s).status < 300
         /\ Decodable(LastProvided(s).text)) =>
            /\ inv[s].result = Decode(LastProvided(s).text)
            /\ inv[s].exc.type = "none"
            /\ LastProvided(s).text = PokemonText(inv[s].name) =>
                  inv[s].result.items =
                      { <<"name", inv[s].name>>,
                        <<"id", IF inv[s].name = "pikachu" THEN "25" ELSE "0">>,
                        <<"height", "4">> }

C9_Witness ==
    \E s \in Invocations :
        /\ Done(s) /\ Lookup(s)
        /\ LastProvided(s).kind = "answer" /\ LastProvided(s).status = 200
        /\ inv[s].result =
              PyDict({ <<"name", "pikachu">>, <<"id", "25">>, <<"height", "4">> })

\* What one lookup of `name` returns, run alone, when the provider does b.
LookupAlone(name, b) ==
    IF b.kind = "fault" THEN PyDict({ <<"error", b.msg>> })
    ELSE IF RaisesForStatus(b.status)
         THEN PyDict({ <<"error", HTTPErrorMsg(b.status, Url(name))>> })
    ELSE IF Decodable(b.text) THEN Decode(b.text)
    ELSE PyDict({ <<"error", JSONDecodeMsg>> })

\* C5: under every interleaving, the provider is asked for the invocation's
\* own key, and what an invocation holds to return (and returns) is what a
\* lookup of its own argument run alone returns for the provider's answer to
\* its own request; a greeting is built from its own name.
C5_NoCrossSessionBleed ==
    \A s \in Invocations :
        /\ \A i \in 1..Len(providerLog[s]) : providerLog[s][i].url = Url(inv[s].name)
        /\ \A req \in wire : req.url = Url(inv[req.sock].name)
        /\ (inv[s].pc = "return_data") =>
              inv[s].data = LookupAlone(inv[s].name, LastProvided(s))
        /\ (Done(s) /\ Lookup(s)) =>
              inv[s].result = LookupAlone(inv[s].name, LastProvided(s))
        /\ (Done(s) /\ ~Lookup(s)) =>
              inv[s].result = PyStr("Hello " \o inv[s].name
                                     \o ", Welcome to Pokemon MCP Server")

\* Two lookups with different arguments, in flight together, each past its
\* provider call and holding its own record.
C5_Witness ==
    \E s, t \in Invocations :
        /\ inv[s].pc = "return_data" /\ inv[t].pc = "return_data"
        /\ inv[s].name = "pikachu" /\ inv[t].name = "missingmon"
        /\ HasKey(inv[s].data, "name") /\ HasKey(inv[t].data, "error")

\* C10: an invocation never issues more than one GET; a finished get_pokemon
\* invocation issued exactly one, answered by the provider for that
\* invocation, whether it succeeded or failed; the greeting tool issues none.
C10_OneGetPerInvocation ==
    \A s \in Invocations :
        /\ inv[s].gets <= 1
        /\ Len(providerLog[s]) <= inv[s].gets
        /\ (Done(s) /\ Lookup(s)) => (inv[s].gets = 1 /\ Len(providerLog[s]) = 1)
        /\ inv[s].tool = "greet_pokemon_user" => inv[s].gets = 0

\* Two finished lookups of the same key, the first failed and the second
\* succeeded: each went to the provider once.
C10_Witness ==
    \E s, t \in Invocations :
        /\ s < t
        /\ Done(s) /\ Done(t) /\ Lookup(s) /\ Lookup(t)
        /\ inv[s].name = inv[t].name
        /\ inv[s].exc.type # "none" /\ inv[t].exc.type = "none"
        /\ inv[s].gets = 1 /\ inv[t].gets = 1

====
